---- MODULE Spec2Model ----
(***************************************************************************)
(* A model of fetch_processing_times.py: configuration validation, the     *)
(* paginated fetch of MessageProcessingLogs, the duration stage, the       *)
(* per-flow maximum, the top-5 ranking and the POST of the result.         *)
(*                                                                         *)
(* Python strings the code inspects (timestamps, links, URLs) are modelled *)
(* as sequences of one-character strings, so that the regular expression   *)
(* of parse_log_date and str.startswith are computed, not assumed.         *)
(* A value that may be None is a record [isNone, text].                    *)
(***************************************************************************)
EXTENDS Integers, Sequences, FiniteSets, TLC

VARIABLES
    pc,               \* position in the script
    env,              \* os.environ as read by lines 12-18
    raised,           \* the exception that ended the run, or "none"
    next_url,         \* line 45
    all_results,      \* line 44
    http_log,         \* every request issued, in order (GET and POST)
    responses,        \* every response to a GET, in order
    duration_records, \* line 75
    max_durations,    \* line 93: the dict, as its entries in insertion order
    top_5,            \* line 102
    post_status,      \* post_response.status_code, 0 before the POST
    outcome           \* which branch of lines 126-131 printed

vars == <<pc, env, raised, next_url, all_results, http_log, responses,
          duration_records, max_durations, top_5, post_status, outcome>>

----------------------------------------------------------------------------
(* Bounds of the model *)

MaxGets == 3
MaxPageLen == 1
MaxRecs == 6
MaxDurRecs == 2

----------------------------------------------------------------------------
(* Python values *)

None == [isNone |-> TRUE, text |-> <<>>]
Str(s) == [isNone |-> FALSE, text |-> s]

\* Python truthiness of an optional string: None and "" are false.
Truthy(v) == ~v.isNone /\ v.text # <<>>

Min(a, b) == IF a <= b THEN a ELSE b

\* the element of a one-element set; {f(x) : x \in {e}} names the value of e
\* as x, so that e is worked out once
The(S) == CHOOSE x \in S : TRUE

IsDigit(c) == c \in {"0", "1", "2", "3", "4", "5", "6", "7", "8", "9"}

DigitVal(c) ==
    CASE c = "0" -> 0 [] c = "1" -> 1 [] c = "2" -> 2 [] c = "3" -> 3
      [] c = "4" -> 4 [] c = "5" -> 5 [] c = "6" -> 6 [] c = "7" -> 7
      [] c = "8" -> 8 [] c = "9" -> 9

\* s[i .. i + Len(p) - 1] = p
StartsWithAt(s, i, p) ==
    /\ i + Len(p) - 1 <= Len(s)
    /\ \A k \in 1..Len(p) : s[i + k - 1] = p[k]

\* int(): the decimal value of a string of digits
\* the value of the first n digits of ds
RECURSIVE IntUpTo(_, _)
IntUpTo(ds, n) ==
    IF n = 0 THEN 0 ELSE 10 * IntUpTo(ds, n - 1) + DigitVal(ds[n])

IntOf(ds) == IntUpTo(ds, Len(ds))

----------------------------------------------------------------------------
(* parse_log_date, lines 71-73: re.search(r'/Date\((\d+)\)/', date_str)    *)

DatePrefix == <<"/", "D", "a", "t", "e", "(">>
DateSuffix == <<")", "/">>

\* the first position at or after i that holds no digit: the end of \d+,
\* which is greedy and can give nothing back, since ")" is no digit
RECURSIVE DigitRunEnd(_, _)
DigitRunEnd(s, i) ==
    IF i <= Len(s) /\ IsDigit(s[i]) THEN DigitRunEnd(s, i + 1) ELSE i

\* a variant that matches r'/Date\((\d+)', without the closing ")/"
MatchAtOpen(s, i) ==
    IF ~StartsWithAt(s, i, DatePrefix) THEN <<>>
    ELSE LET j == i + Len(DatePrefix)
             k == DigitRunEnd(s, j)
         IN  IF k > j THEN <<SubSeq(s, j, k - 1)>> ELSE <<>>

\* the match of the pattern starting at position i: <<digits>> or <<>>
MatchAt(s, i) ==
    IF ~StartsWithAt(s, i, DatePrefix) THEN <<>>
    ELSE LET j == i + Len(DatePrefix)
             k == DigitRunEnd(s, j)
         IN  IF k > j /\ StartsWithAt(s, k, DateSuffix)
             THEN <<SubSeq(s, j, k - 1)>>
             ELSE <<>>

\* re.search: the leftmost position with a match
RECURSIVE SearchFrom(_, _)
SearchFrom(s, i) ==
    IF i > Len(s) THEN <<>>
    ELSE IF MatchAt(s, i) # <<>> THEN MatchAt(s, i)
    ELSE SearchFrom(s, i + 1)

\* <<n>> for the integer n, <<>> for None
parse_log_date(date_str) ==
    The({IF match # <<>> THEN <<IntOf(match[1])>> ELSE <<>> :
            match \in {SearchFrom(date_str, 1)}})

----------------------------------------------------------------------------
(* The duration stage, lines 75-88 *)

\* a variant that clamps at zero: max(0, end_ms - start_ms)
DurationClamped(start_ms, end_ms) ==
    IF end_ms < start_ms THEN 0 ELSE end_ms - start_ms

\* line 81
DurationOf(start_ms, end_ms) == end_ms - start_ms

\* line 79, on the two results of parse_log_date
IsSkipped(start_ms, end_ms) == start_ms = <<>> \/ end_ms = <<>>

\* one pass of the loop body: the list with entry's record appended, or
\* the list unchanged when the entry is skipped
DurationStep(records, entry) ==
    The({IF IsSkipped(start_ms, end_ms) THEN records
         ELSE Append(records,
                     [IntegrationFlowName |-> entry.IntegrationFlowName,
                      MessageGuid |-> entry.MessageGuid,
                      DurationMs  |-> DurationOf(start_ms[1], end_ms[1]),
                      LogStart    |-> start_ms[1],
                      LogEnd      |-> end_ms[1]]) :
            start_ms \in {parse_log_date(entry.LogStart)},
            end_ms   \in {parse_log_date(entry.LogEnd)}})

\* the list after the first n passes of the for loop of line 76
RECURSIVE DurationsUpTo(_, _)
DurationsUpTo(results, n) ==
    IF n = 0 THEN <<>>
    ELSE DurationStep(DurationsUpTo(results, n - 1), results[n])

DurationRecords(results) == DurationsUpTo(results, Len(results))

----------------------------------------------------------------------------
(* The maximum per flow, lines 93-97.  The dict is the sequence of its     *)
(* values in insertion order; assigning to a key already present replaces  *)
(* the value and keeps the key's place.                                    *)

\* the position of key name in the dict, 0 when absent
KeyIndex(dict, name) ==
    IF \E i \in 1..Len(dict) : dict[i].IntegrationFlowName = name
    THEN CHOOSE i \in 1..Len(dict) : dict[i].IntegrationFlowName = name
    ELSE 0

\* a variant that compares with >=: the last record of a tie is kept
ReplacesOnTie(record, kept) == record.DurationMs >= kept.DurationMs

\* line 96, for a key that is present
Replaces(record, kept) == record.DurationMs > kept.DurationMs

\* lines 95-97
ReduceStep(dict, record) ==
    LET i == KeyIndex(dict, record.IntegrationFlowName)
    IN  IF i = 0 THEN Append(dict, record)
        ELSE IF Replaces(record, dict[i]) THEN [dict EXCEPT ![i] = record]
        ELSE dict

\* the dict after the first n passes of the for loop of line 94
RECURSIVE MaxUpTo(_, _)
MaxUpTo(records, n) ==
    IF n = 0 THEN <<>>
    ELSE ReduceStep(MaxUpTo(records, n - 1), records[n])

MaxDurations(records) == MaxUpTo(records, Len(records))

----------------------------------------------------------------------------
(* The ranking, line 102: sorted(values, key=DurationMs, reverse=True)[:5] *)

TopN == 5

\* a variant that is not stable: x goes before the elements with its key
InsertBeforeEqual(sorted, x) ==
    LET n == Cardinality({i \in 1..Len(sorted) :
                             sorted[i].DurationMs > x.DurationMs})
    IN  SubSeq(sorted, 1, n) \o <<x>> \o SubSeq(sorted, n + 1, Len(sorted))

\* sorted() is stable, and reverse=True keeps the order of equal keys:
\* x goes behind every element whose key is >= its own
InsertDesc(sorted, x) ==
    LET n == Cardinality({i \in 1..Len(sorted) :
                             sorted[i].DurationMs >= x.DurationMs})
    IN  SubSeq(sorted, 1, n) \o <<x>> \o SubSeq(sorted, n + 1, Len(sorted))

\* the first n values, sorted
RECURSIVE SortedUpTo(_, _)
SortedUpTo(values, n) ==
    IF n = 0 THEN <<>>
    ELSE InsertDesc(SortedUpTo(values, n - 1), values[n])

SortedDesc(values) == SortedUpTo(values, Len(values))

\* a variant that cuts one entry late: [:6]
SliceLate(values) == SubSeq(values, 1, Min(TopN + 1, Len(values)))

\* the slice [:5]
Slice(values) == SubSeq(values, 1, Min(TopN, Len(values)))

Top5Of(dict) == Slice(SortedDesc(dict))

----------------------------------------------------------------------------
(* Configuration, lines 12-24 *)

EnvNames == {"SAP_USERNAME", "SAP_PASSWORD", "SAP_BASE_URL",
             "IFLOW_URL", "IFLOW_USERNAME", "IFLOW_PASSWORD"}

\* a value for each variable when it is set to something
BaseUrlText == <<"h", "t", "t", "p", ":", "/", "/", "s">>
IflowUrlText == <<"h", "t", "t", "p", ":", "/", "/", "i">>
SetValue(name) ==
    CASE name = "SAP_BASE_URL" -> Str(BaseUrlText)
      [] name = "IFLOW_URL"    -> Str(IflowUrlText)
      [] OTHER                 -> Str(<<"u">>)

\* os.environ.get(name): None when unset, "" when set to nothing
EnvValues(name) == {None, Str(<<>>), SetValue(name)}

AllSet == [name \in EnvNames |-> SetValue(name)]

\* a variant that validates the SAP_ variables only
ConfigCompleteSap(e) ==
    \A name \in {"SAP_USERNAME", "SAP_PASSWORD", "SAP_BASE_URL"} : Truthy(e[name])

\* line 23: all([...]) is true when every value is truthy
ConfigComplete(e) == \A name \in EnvNames : Truthy(e[name])

----------------------------------------------------------------------------
(* URLs, lines 39 and 58 *)

\* stands for the text "MessageProcessingLogs?$format=json&$select=...
\* &$filter=<encoded filter>" of line 39
QueryText == <<"M", "P", "L", "?">>
Http == <<"h", "t", "t", "p">>

InitialUrl(e) == e["SAP_BASE_URL"].text \o <<"/">> \o QueryText

\* a variant that joins every link to the base URL
NextUrlJoined(e, next_link) == e["SAP_BASE_URL"].text \o <<"/">> \o next_link

\* line 58
NextUrlOf(e, next_link) ==
    IF StartsWithAt(next_link, 1, Http) THEN next_link
    ELSE e["SAP_BASE_URL"].text \o <<"/">> \o next_link

Request(method, url, body) == [method |-> method, url |-> url, body |-> body]

Gets == SelectSeq(http_log, LAMBDA r : r.method = "GET")
Posts == SelectSeq(http_log, LAMBDA r : r.method = "POST")

----------------------------------------------------------------------------
(* What the two servers may answer *)

\* records of the monitoring API
Ts(n) == DatePrefix \o n \o DateSuffix
RawRecord(name, guid, log_start, log_end) ==
    [IntegrationFlowName |-> name, MessageGuid |-> guid,
     LogStart |-> log_start, LogEnd |-> log_end]

RecA == RawRecord("A", 1, Ts(<<"1", "0", "0", "0">>), Ts(<<"2", "5", "0", "0">>))
RecB == RawRecord("B", 2, Ts(<<"7">>), <<"n", "u", "l", "l">>)
SampleRecords == {RecA, RecB}

RECURSIVE SeqsUpTo(_, _)
SeqsUpTo(S, n) ==
    IF n = 0 THEN {<<>>}
    ELSE LET shorter == SeqsUpTo(S, n - 1)
         IN  shorter \cup {Append(s, x) : s \in {t \in shorter : Len(t) = n - 1},
                                          x \in S}

Pages == SeqsUpTo(SampleRecords, MaxPageLen)

\* d.__next: absent, empty, absolute, relative
AbsLink == <<"h", "t", "t", "p", ":", "/", "/", "s", "/", "2">>
RelLink == <<"M", "P", "L", "?", "k">>
Links == {None, Str(<<>>), Str(AbsLink), Str(RelLink)}

GetStatuses == {200, 201, 500}
\* what the body of a response with another status may hold as d.results
FailureBodies == {<<>>, <<RecA>>}
PostStatuses == {200, 201, 202, 204, 500}

Response(status, results, next_link) ==
    [status |-> status, results |-> results, next |-> next_link]

----------------------------------------------------------------------------
(* The script *)

Init ==
    /\ pc = "start"
    /\ env \in [EnvNames -> UNION {EnvValues(name) : name \in EnvNames}]
    /\ \A name \in EnvNames : env[name] \in EnvValues(name)
    /\ raised = "none"
    /\ next_url = None
    /\ all_results = <<>>
    /\ http_log = <<>>
    /\ responses = <<>>
    /\ duration_records = <<>>
    /\ max_durations = <<>>
    /\ top_5 = <<>>
    /\ post_status = 0
    /\ outcome = "none"

\* lines 23-24: the configuration error
ConfigError ==
    /\ pc = "start"
    /\ ~ConfigComplete(env)
    /\ pc' = "aborted"
    /\ raised' = "RuntimeError"
    /\ UNCHANGED <<env, next_url, all_results, http_log, responses,
                   duration_records, max_durations, top_5, post_status, outcome>>

\* lines 23-45 with a complete configuration
Setup ==
    /\ pc = "start"
    /\ ConfigComplete(env)
    /\ pc' = "fetch"
    /\ next_url' = Str(InitialUrl(env))
    /\ all_results' = <<>>
    /\ UNCHANGED <<env, raised, http_log, responses,
                   duration_records, max_durations, top_5, post_status, outcome>>

\* lines 56-60, and the loop test of line 47 on the new next_url
AfterPage(next_link) ==
    IF Truthy(next_link)
    THEN /\ next_url' = Str(NextUrlOf(env, next_link.text))
         /\ pc' = IF Truthy(next_url') THEN "fetch" ELSE "durations"
    ELSE /\ next_url' = None
         /\ pc' = "durations"

\* a variant that assigns instead of extending
Replaced(results, page) == page

\* line 54
Extended(results, page) == results \o page

\* lines 49-60: the GET of next_url answered with status 200 and this page
Answered(page, next_link) ==
    /\ http_log' = Append(http_log, Request("GET", next_url.text, <<>>))
    /\ responses' = Append(responses, Response(200, page, next_link))
    /\ all_results' = Extended(all_results, page)
    /\ AfterPage(next_link)
    /\ UNCHANGED <<env, raised, duration_records, max_durations, top_5,
                   post_status, outcome>>

\* lines 47-60: one GET answered with status 200
Get200 ==
    /\ pc = "fetch"
    /\ Len(Gets) < MaxGets
    /\ \E page \in Pages, next_link \in Links : Answered(page, next_link)

\* line 64: break leaves the loop
PcAfterFailure == "durations"

\* a variant that reads the body before it looks at the status
ExtendedOnFailure(results, page) == results \o page

\* lines 61-64: all_results is left as it is, whatever the body holds
KeptOnFailure(results, page) == results

\* lines 47-51 and 61-64: one GET answered with another status
GetNon200 ==
    /\ pc = "fetch"
    /\ Len(Gets) < MaxGets
    /\ \E status \in GetStatuses \ {200}, page \in FailureBodies :
          /\ http_log' = Append(http_log, Request("GET", next_url.text, <<>>))
          /\ responses' = Append(responses, Response(status, page, None))
          /\ all_results' = KeptOnFailure(all_results, page)
    /\ pc' = PcAfterFailure
    /\ UNCHANGED <<env, raised, next_url, duration_records,
                   max_durations, top_5, post_status, outcome>>

\* lines 75-88
ComputeDurations ==
    /\ pc = "durations"
    /\ duration_records' = DurationRecords(all_results)
    /\ pc' = "reduce"
    /\ UNCHANGED <<env, raised, next_url, all_results, http_log, responses,
                   max_durations, top_5, post_status, outcome>>

\* lines 93-97
Reduce ==
    /\ pc = "reduce"
    /\ max_durations' = MaxDurations(duration_records)
    /\ pc' = "top5"
    /\ UNCHANGED <<env, raised, next_url, all_results, http_log, responses,
                   duration_records, top_5, post_status, outcome>>

\* line 102
Top5 ==
    /\ pc = "top5"
    /\ top_5' = Top5Of(max_durations)
    /\ pc' = "post"
    /\ UNCHANGED <<env, raised, next_url, all_results, http_log, responses,
                   duration_records, max_durations, post_status, outcome>>

\* lines 114-116
Payload(top) == [Top5IflowsByDuration |-> top]

\* a variant that takes every 2xx status for a success
PostSucceededAny2xx(status) == status \in 200..299

\* line 126
PostSucceeded(status) == status \in {200, 201, 202}

\* lines 114-131
PostWith(statuses) ==
    /\ pc = "post"
    /\ \E status \in statuses :
          /\ http_log' = Append(http_log,
                                Request("POST", env["IFLOW_URL"].text, Payload(top_5)))
          /\ post_status' = status
          /\ outcome' = IF PostSucceeded(status) THEN "success" ELSE "failure"
    /\ pc' = "done"
    /\ UNCHANGED <<env, raised, next_url, all_results, responses,
                   duration_records, max_durations, top_5>>

Post == PostWith(PostStatuses)

Next ==
    \/ ConfigError
    \/ Setup
    \/ Get200
    \/ GetNon200
    \/ ComputeDurations
    \/ Reduce
    \/ Top5
    \/ Post

Spec == Init /\ [][Next]_vars

----------------------------------------------------------------------------
(* The same script where every page holds at most one record, and where    *)
(* the script runs on: a statement that can execute does, and every        *)
(* request is answered.                                                    *)

FairPages == {<<>>, <<RecA>>, <<RecB>>}

GetFair ==
    /\ pc = "fetch"
    /\ Len(Gets) < MaxGets
    /\ \E page \in FairPages, next_link \in Links : Answered(page, next_link)

NextFair ==
    \/ ConfigError
    \/ Setup
    \/ GetFair
    \/ GetNon200
    \/ ComputeDurations
    \/ Reduce
    \/ Top5
    \/ Post

FairSpec == Init /\ [][NextFair]_vars /\ WF_vars(NextFair)

----------------------------------------------------------------------------
(* The run with a complete configuration and a monitoring API that answers *)
(* the first GET with one page of up to MaxRecs records: every way the     *)
(* records can be spread over flows (flows named in order of appearance),  *)
(* each record lasting -1 ms or 7 ms.                                      *)

FlowNames == <<"A", "B", "C", "D", "E", "F", "G", "H">>

AggTimes == {<<Ts(<<"1", "0">>), Ts(<<"9">>)>>, <<Ts(<<"5">>), Ts(<<"1", "2">>)>>}

\* the page is prefix, or prefix and up to n more records, each of a flow
\* already named or of the next unused name (used names so far)
RECURSIVE AnsweredAgg(_, _, _)
AnsweredAgg(prefix, used, n) ==
    \/ Answered(prefix, None)
    \/ /\ n > 0
       /\ \E f \in 1..Min(used + 1, Len(FlowNames)), t \in AggTimes :
             AnsweredAgg(Append(prefix, RawRecord(FlowNames[f], Len(prefix) + 1,
                                                 t[1], t[2])),
                         IF f > used THEN f ELSE used, n - 1)

InitAgg ==
    /\ pc = "start"
    /\ env = AllSet
    /\ raised = "none"
    /\ next_url = None
    /\ all_results = <<>>
    /\ http_log = <<>>
    /\ responses = <<>>
    /\ duration_records = <<>>
    /\ max_durations = <<>>
    /\ top_5 = <<>>
    /\ post_status = 0
    /\ outcome = "none"

GetAgg ==
    /\ pc = "fetch"
    /\ Len(Gets) < MaxGets
    /\ AnsweredAgg(<<>>, 0, MaxRecs)
PostAgg == PostWith({200})

NextAgg ==
    \/ Setup
    \/ GetAgg
    \/ ComputeDurations
    \/ Reduce
    \/ Top5
    \/ PostAgg

SpecAgg == InitAgg /\ [][NextAgg]_vars

----------------------------------------------------------------------------
(* The run with a complete configuration and a monitoring API that answers *)
(* the first GET with one page of up to MaxDurRecs records whose two       *)
(* timestamps are any of the strings of TsStrings.                         *)

TsStrings == {
    Ts(<<"1", "2">>),                                  \* /Date(12)/
    Ts(<<"0", "5">>),                                  \* /Date(05)/
    <<"x">> \o Ts(<<"3", "0">>) \o <<"y">>,            \* x/Date(30)/y
    Ts(<<"-", "5">>),                                  \* /Date(-5)/
    DatePrefix \o <<"7", ")">>,                        \* /Date(7)
    Ts(<<>>),                                          \* /Date()/
    <<>> }                                             \* the empty string

RECURSIVE AnsweredDur(_, _)
AnsweredDur(prefix, n) ==
    \/ Answered(prefix, None)
    \/ /\ n > 0
       /\ \E s \in TsStrings, e \in TsStrings :
             AnsweredDur(Append(prefix, RawRecord("A", Len(prefix) + 1, s, e)),
                         n - 1)

GetDur ==
    /\ pc = "fetch"
    /\ Len(Gets) < MaxGets
    /\ AnsweredDur(<<>>, MaxDurRecs)

NextDur ==
    \/ Setup
    \/ GetDur
    \/ ComputeDurations
    \/ Reduce
    \/ Top5
    \/ PostAgg

SpecDur == InitAgg /\ [][NextDur]_vars

----------------------------------------------------------------------------
(* Vocabulary of the properties *)

Last(s) == s[Len(s)]

IsOk(r) == r.status = 200

\* the pages of the responses with status 200, one after the other
RECURSIVE FlattenFrom(_, _)
FlattenFrom(rs, k) ==
    IF k > Len(rs) THEN <<>>
    ELSE (IF IsOk(rs[k]) THEN rs[k].results ELSE <<>>) \o FlattenFrom(rs, k + 1)

Flatten(rs) == FlattenFrom(rs, 1)

\* the script has left the pagination loop
Fetched == pc \in {"durations", "reduce", "top5", "post", "done"}

\* a link as the claims call it: absolute when it begins with "http"
IsAbsolute(link) == Len(link) >= 4 /\ SubSeq(link, 1, 4) = Http

\* the URL a continuation link stands for
Resolved(link) ==
    IF IsAbsolute(link) THEN link ELSE BaseUrlText \o <<"/">> \o link

----------------------------------------------------------------------------
(* C2: when every response so far had status 200, one GET was issued per   *)
(* page, all_results is the pages' results in page order, and the loop has *)
(* stopped exactly when the last page carries no continuation link.        *)

C2_PaginationCollectsPages ==
    (pc \notin {"start", "aborted"} /\ \A k \in 1..Len(responses) : IsOk(responses[k]))
    => /\ Len(Gets) = Len(responses)
       /\ Posts = <<>> => Len(http_log) = Len(responses)
       /\ all_results = Flatten(responses)
       /\ Fetched <=> (responses # <<>> /\ ~Truthy(Last(responses).next))
       /\ \A k \in 1..(Len(responses) - 1) : Truthy(responses[k].next)

C2_Witness ==
    /\ pc = "durations"
    /\ Len(responses) = 3
    /\ \A k \in 1..3 : IsOk(responses[k])
    /\ responses[1].results = <<RecB>>
    /\ responses[2].results = <<>>
    /\ responses[3].results = <<RecA>>
    /\ all_results = <<RecB, RecA>>

----------------------------------------------------------------------------
(* C3: once a GET is answered with a status other than 200, no further GET *)
(* is issued, all_results holds exactly the results of the pages before    *)
(* it, nothing is raised, and the later stages and the POST still run.     *)

C3_FailureInvariant ==
    (\E k \in 1..Len(responses) : ~IsOk(responses[k]))
    => /\ ~IsOk(Last(responses))
       /\ \A k \in 1..(Len(responses) - 1) : IsOk(responses[k])
       /\ Len(Gets) = Len(responses)
       /\ Fetched
       /\ all_results = Flatten(SubSeq(responses, 1, Len(responses) - 1))
       /\ raised = "none"
       /\ pc \in {"reduce", "top5", "post", "done"} =>
             /\ Len(duration_records) <= Len(all_results)
             /\ (\E i \in 1..Len(all_results) : all_results[i] = RecA)
                   <=> duration_records # <<>>
       /\ pc = "done" =>
             /\ Len(Posts) = 1
             /\ Last(http_log).method = "POST"
             /\ LET sent == Last(http_log).body.Top5IflowsByDuration
                IN  /\ duration_records # <<>> <=> sent # <<>>
                    /\ \A j \in 1..Len(sent) :
                          \E i \in 1..Len(all_results) :
                             /\ all_results[i].MessageGuid = sent[j].MessageGuid
                             /\ all_results[i].IntegrationFlowName
                                   = sent[j].IntegrationFlowName

Failed == responses # <<>> /\ ~IsOk(Last(responses))

C3_FailureStopsPagination ==
    /\ []C3_FailureInvariant
    /\ Failed ~> (pc = "done" /\ Failed)

C3_Witness ==
    /\ pc = "done"
    /\ Len(responses) = 2
    /\ responses[1] = Response(200, <<RecA>>, Str(RelLink))
    /\ responses[2] = Response(500, <<RecA>>, None)
    /\ all_results = <<RecA>>
    /\ Len(top_5) = 1

----------------------------------------------------------------------------
(* C4 as claimed: a run with one of the six variables absent issues no     *)
(* request and ends in the configuration error, and a run with all six     *)
(* present does not raise it.                                              *)

IsAbsent(name) == env[name].isNone
IsEmpty(name) == ~env[name].isNone /\ env[name].text = <<>>

C4_AsClaimed ==
    /\ (\E name \in EnvNames : IsAbsent(name))
          => /\ http_log = <<>>
             /\ pc \in {"start", "aborted"}
             /\ pc = "aborted" => raised = "RuntimeError"
    /\ (\A name \in EnvNames : ~IsAbsent(name))
          => /\ raised = "none"
             /\ pc # "aborted"

(* C4 as amended: a variable set to the empty string counts as missing.    *)
(* A run with one of the six variables absent or empty issues no request   *)
(* and ends in the configuration error; a run with all six present and not *)
(* empty does not raise it.                                                *)

C4_ConfigValidation ==
    /\ (\E name \in EnvNames : IsAbsent(name) \/ IsEmpty(name))
          => /\ http_log = <<>>
             /\ responses = <<>>
             /\ pc \in {"start", "aborted"}
             /\ pc = "aborted" => raised = "RuntimeError"
    /\ (\A name \in EnvNames : ~IsAbsent(name) /\ ~IsEmpty(name))
          => /\ raised = "none"
             /\ pc # "aborted"

C4_Witness ==
    /\ pc = "aborted"
    /\ raised = "RuntimeError"
    /\ IsAbsent("IFLOW_PASSWORD")
    /\ \A name \in EnvNames \ {"IFLOW_PASSWORD"} : env[name] = SetValue(name)
    /\ http_log = <<>>

----------------------------------------------------------------------------
(* C8: a run that has left the pagination loop issues at most one POST,    *)
(* the POST is the last request of the run and follows at least one GET,   *)
(* the run is done exactly when the POST is issued, the publish counts as  *)
(* a success exactly for the statuses 200, 201 and 202, and nothing is     *)
(* raised; and a run that has left the loop gets to its POST.              *)

C8_PostInvariant ==
    /\ Len(Posts) <= 1
    /\ Len(Posts) = 1 <=> pc = "done"
    /\ pc # "done" => outcome = "none" /\ post_status = 0
    /\ Fetched => raised = "none" /\ Len(Gets) >= 1
    /\ pc = "done" =>
          /\ Last(http_log).method = "POST"
          /\ Last(http_log).url = IflowUrlText
          /\ \A k \in 1..(Len(http_log) - 1) : http_log[k].method = "GET"
          /\ outcome \in {"success", "failure"}
          /\ outcome = "success" <=> post_status \in {200, 201, 202}

C8_SinglePostAfterFetch ==
    /\ []C8_PostInvariant
    /\ Fetched ~> (pc = "done" /\ Len(Posts) = 1)

C8_Witness ==
    /\ pc = "done"
    /\ post_status = 204
    /\ outcome = "failure"
    /\ Len(Gets) = 2
    /\ ~IsOk(Last(responses))

----------------------------------------------------------------------------
(* C10: a response with status 200 and a non-empty continuation link is    *)
(* always followed by another GET, of the link itself when it is absolute  *)
(* and of the link behind the base URL when it is relative; as long as     *)
(* every response carries such a link the script stays in the loop, holds  *)
(* every page received so far, and has issued no POST.                     *)

Continues(r) == IsOk(r) /\ Truthy(r.next)

RECURSIVE LenFrom(_, _)
LenFrom(rs, k) ==
    IF k > Len(rs) THEN 0 ELSE Len(rs[k].results) + LenFrom(rs, k + 1)

TotalLen(rs) == LenFrom(rs, 1)

C10_LinkIsAlwaysFollowed ==
    /\ \A k \in 1..Len(responses) :
          Continues(responses[k]) =>
             IF k < Len(Gets)
             THEN Gets[k + 1].url = Resolved(responses[k].next.text)
             ELSE /\ pc = "fetch"
                  /\ next_url = Str(Resolved(responses[k].next.text))
    /\ (pc = "fetch" /\ \A k \in 1..Len(responses) : Continues(responses[k]))
          => /\ Posts = <<>>
             /\ Len(Gets) = Len(responses)
             /\ Len(all_results) = TotalLen(responses)

C10_Witness ==
    /\ pc = "fetch"
    /\ Len(Gets) = MaxGets
    /\ Gets[2].url = AbsLink
    /\ Gets[3].url = BaseUrlText \o <<"/">> \o RelLink
    /\ \A k \in 1..Len(responses) : Continues(responses[k])
    /\ Len(all_results) = MaxGets * MaxPageLen

----------------------------------------------------------------------------
(* Vocabulary of the properties of the three stages *)

NamesIn(records) ==
    {records[i].IntegrationFlowName : i \in 1..Len(records)}

\* the decimal numeral of a natural number
DigitChars == <<"0", "1", "2", "3", "4", "5", "6", "7", "8", "9">>
RECURSIVE Dec(_)
Dec(n) ==
    IF n < 10 THEN <<DigitChars[n + 1]>>
    ELSE Dec(n \div 10) \o <<DigitChars[(n % 10) + 1]>>

\* the places of the records of a flow in duration_records
PlacesOf(name) ==
    {i \in 1..Len(duration_records) :
        duration_records[i].IntegrationFlowName = name}

\* the place where a flow is first seen
Discovered(name) ==
    CHOOSE i \in PlacesOf(name) : \A k \in PlacesOf(name) : i <= k

InTop(name) == \E j \in 1..Len(top_5) : top_5[j].IntegrationFlowName = name
PlaceInTop(name) ==
    CHOOSE j \in 1..Len(top_5) : top_5[j].IntegrationFlowName = name

Reduced == pc \in {"top5", "post", "done"}
Ranked == pc \in {"post", "done"}

----------------------------------------------------------------------------
(* C1: after the reduction max_durations holds exactly one record for each *)
(* flow of duration_records, a record of that flow whose DurationMs is at  *)
(* least that of every record of the flow, and among the records of the    *)
(* flow with that duration the first one.                                  *)

C1_PerFlowMaximum ==
    Reduced =>
       /\ \A name \in NamesIn(duration_records) :
             Cardinality({j \in 1..Len(max_durations) :
                             max_durations[j].IntegrationFlowName = name}) = 1
       /\ \A j \in 1..Len(max_durations) :
             \E i \in PlacesOf(max_durations[j].IntegrationFlowName) :
                /\ max_durations[j] = duration_records[i]
                /\ \A k \in PlacesOf(max_durations[j].IntegrationFlowName) :
                      /\ duration_records[k].DurationMs
                            <= duration_records[i].DurationMs
                      /\ duration_records[k].DurationMs
                            = duration_records[i].DurationMs => i <= k

C1_Witness ==
    /\ pc = "top5"
    /\ Len(max_durations) >= 2
    /\ \E i, j, k \in 1..Len(duration_records) :
          /\ i < j /\ j < k
          /\ {i, j, k} \subseteq PlacesOf("A")
          /\ duration_records[i].DurationMs < duration_records[j].DurationMs
          /\ duration_records[j].DurationMs = duration_records[k].DurationMs
          /\ max_durations[1] = duration_records[j]

----------------------------------------------------------------------------
(* C6: the top-5 list holds min(5, number of distinct flow names) entries, *)
(* and the list the POST carries as Top5IflowsByDuration is that list: at  *)
(* most 5 entries, no two of the same flow.                                *)

C6_TopFiveLength ==
    /\ Ranked => Len(top_5) = Min(5, Cardinality(NamesIn(duration_records)))
    /\ pc = "done" =>
          /\ Len(Posts) = 1
          /\ LET sent == Posts[1].body.Top5IflowsByDuration
             IN  /\ sent = top_5
                 /\ Len(sent) <= 5
                 /\ \A i, j \in 1..Len(sent) :
                       sent[i].IntegrationFlowName = sent[j].IntegrationFlowName
                          => i = j

C6_Witness ==
    /\ pc = "done"
    /\ Cardinality(NamesIn(duration_records)) = 6
    /\ Len(Posts[1].body.Top5IflowsByDuration) = 5

----------------------------------------------------------------------------
(* C7: the top-5 list is in descending order of DurationMs, no flow left   *)
(* out of it has a larger maximum than a flow in it, and of two flows with *)
(* equal maxima the one discovered first comes first and is the one kept   *)
(* at the cut.                                                             *)

C7_RankingOrder ==
    Ranked =>
       /\ \A j \in 1..Len(top_5) :
             \E m \in 1..Len(max_durations) : top_5[j] = max_durations[m]
       /\ \A j \in 1..(Len(top_5) - 1) :
             top_5[j].DurationMs >= top_5[j + 1].DurationMs
       /\ \A m \in 1..Len(max_durations) :
             ~InTop(max_durations[m].IntegrationFlowName)
                => \A j \in 1..Len(top_5) :
                      max_durations[m].DurationMs <= top_5[j].DurationMs
       /\ \A a, b \in 1..Len(max_durations) :
             LET first  == max_durations[a].IntegrationFlowName
                 second == max_durations[b].IntegrationFlowName
             IN  ( /\ max_durations[a].DurationMs = max_durations[b].DurationMs
                   /\ InTop(second)
                   /\ Discovered(first) < Discovered(second) )
                 => /\ InTop(first)
                    /\ PlaceInTop(first) < PlaceInTop(second)

\* six flows, not in order as discovered; the fifth and the sixth of the
\* ranking have equal maxima, and the one discovered last is cut
C7_Witness ==
    /\ pc = "post"
    /\ Len(max_durations) = 6
    /\ max_durations[1].DurationMs < max_durations[2].DurationMs
    /\ top_5[1].DurationMs > top_5[5].DurationMs
    /\ top_5[5].DurationMs = max_durations[6].DurationMs
    /\ ~InTop(max_durations[6].IntegrationFlowName)

----------------------------------------------------------------------------
(* C9: a record whose LogEnd is before its LogStart gets the negative      *)
(* DurationMs LogEnd - LogStart; the maximum of a flow and the ranking     *)
(* treat it as any other number: a flow is in the top-5 list exactly when  *)
(* fewer than five flows rank ahead of it.                                 *)

\* how many flows rank ahead of the m-th entry of max_durations: a larger
\* maximum, or an equal one and an earlier place
Ahead(m) ==
    Cardinality({e \in 1..Len(max_durations) :
        \/ max_durations[e].DurationMs > max_durations[m].DurationMs
        \/ /\ max_durations[e].DurationMs = max_durations[m].DurationMs
           /\ e < m})

C9_NegativeDurations ==
    Ranked =>
       /\ Len(duration_records) = Len(all_results)
       /\ \A i \in 1..Len(duration_records) :
             LET raw == all_results[i]
                 rec == duration_records[i]
             IN  /\ raw.LogStart = Ts(Dec(rec.LogStart))
                 /\ raw.LogEnd = Ts(Dec(rec.LogEnd))
                 /\ rec.DurationMs = rec.LogEnd - rec.LogStart
                 /\ rec.LogEnd < rec.LogStart => rec.DurationMs < 0
       /\ \A m \in 1..Len(max_durations) :
             /\ \A k \in PlacesOf(max_durations[m].IntegrationFlowName) :
                   duration_records[k].DurationMs <= max_durations[m].DurationMs
             /\ InTop(max_durations[m].IntegrationFlowName) <=> Ahead(m) < 5

C9_Witness ==
    /\ pc = "done"
    /\ \E j \in 1..Len(top_5) :
          top_5[j].DurationMs < 0 /\ top_5[j].LogEnd < top_5[j].LogStart
    /\ top_5[1].DurationMs > 0
    /\ \E m \in 1..Len(max_durations) :
          /\ max_durations[m].DurationMs < 0
          /\ ~InTop(max_durations[m].IntegrationFlowName)

----------------------------------------------------------------------------
(* C5: the duration stage keeps exactly the records whose LogStart and     *)
(* LogEnd both hold a wrapped timestamp, in input order, each with the two *)
(* embedded integers and their difference as DurationMs; the other records *)
(* are dropped, nothing is raised, and the run goes on to its POST.        *)

\* w is "/Date(" digits ")/" with at least one digit
IsWrapped(w) ==
    /\ Len(w) > Len(DatePrefix) + Len(DateSuffix)
    /\ SubSeq(w, 1, Len(DatePrefix)) = DatePrefix
    /\ SubSeq(w, Len(w) - Len(DateSuffix) + 1, Len(w)) = DateSuffix
    /\ \A k \in (Len(DatePrefix) + 1)..(Len(w) - Len(DateSuffix)) : IsDigit(w[k])

DigitsOf(w) == SubSeq(w, Len(DatePrefix) + 1, Len(w) - Len(DateSuffix))

\* a numeral without its leading zeros
RECURSIVE StripZeros(_)
StripZeros(ds) ==
    IF Len(ds) > 1 /\ ds[1] = "0" THEN StripZeros(Tail(ds)) ELSE ds

HasPattern(s) ==
    \E i \in 1..Len(s) : \E j \in i..Len(s) : IsWrapped(SubSeq(s, i, j))

\* s holds a wrapped timestamp whose digits are the numeral of n
Embeds(s, n) ==
    /\ n >= 0
    /\ \E i \in 1..Len(s) : \E j \in i..Len(s) :
          /\ IsWrapped(SubSeq(s, i, j))
          /\ StripZeros(DigitsOf(SubSeq(s, i, j))) = Dec(n)

KeptPlaces ==
    {i \in 1..Len(all_results) :
        HasPattern(all_results[i].LogStart) /\ HasPattern(all_results[i].LogEnd)}

\* the k-th of the places kept
Kth(kept, k) ==
    CHOOSE i \in kept : Cardinality({x \in kept : x <= i}) = k

====
